---- MODULE Spec2Model ----
(***************************************************************************)
(* pender: an append-only, hash-linked event log.                          *)
(*                                                                         *)
(*   hash.rs      Blake2      64-byte keyed blake2b digest of a byte string *)
(*   event.rs     Event       Root { fact } | Node { fact, parent_hash }    *)
(*   fragment.rs  Fragment    head + HashMap<Blake2, Event>                 *)
(*                Chain       backward traversal from the head              *)
(*                                                                         *)
(* Byte strings are sequences of units.  A unit is either a literal byte   *)
(* [byte |-> b] or the 64-byte output block of blake2b on some input,      *)
(* [blake2b |-> input].  blake2b is an external primitive (blake2_rfc); it *)
(* is modelled as injective on byte strings: the block names its input, so *)
(* two blocks are equal exactly when their inputs are.                     *)
(***************************************************************************)
EXTENDS Integers, Sequences, FiniteSets, TLC

VARIABLES frag, chain, ops, results, twin

vars == <<frag, chain, ops, results, twin>>

(***************************************************************************)
(* Bounds of the model.                                                    *)
(***************************************************************************)
\* number of append / append_event calls made on a fragment
MaxAppends == 2
\* number of next_event calls made on a chain
MaxCalls == 4
\* length of the literal facts a caller passes
MaxFactLen == 1
\* number of appends made to each of the two fragments of the twin run
MaxTwinAppends == 3

\* the byte values literal facts are made of
FactByte == {0}

(***************************************************************************)
(* Option<T>: None is the empty sequence, Some(x) the one-element one.     *)
(***************************************************************************)
None == << >>

Some(x) == <<x>>

(***************************************************************************)
(* hash.rs                                                                 *)
(***************************************************************************)
\* width of a digest in bytes: `bytes: [u8; 64]`
DigestLen == 64

\* the key every digest is computed under: b"a key"
Blake2Key == "a key"

\* slice.len(): a literal byte counts 1, a blake2b output block its width
RECURSIVE ByteLen(_)
ByteLen(s) ==
    IF s = << >> THEN 0
    ELSE (IF "byte" \in DOMAIN Head(s) THEN 1 ELSE Head(s).outlen) + ByteLen(Tail(s))

\* blake2b(outlen, key, obj).as_bytes(): outlen bytes, injective in obj
blake2b(outlen, key, obj) == <<[blake2b |-> obj, key |-> key, outlen |-> outlen]>>

\* the array returned by into_64bytes, or the panic it raises
Panic == <<[panic |-> "Slice is not 64 bytes"]>>

into_64bytes(slice) == IF ByteLen(slice) # 64 THEN Panic ELSE slice

\* constructor that asks blake2b for a 32-byte digest
Blake2_new_short(obj) == [bytes |-> into_64bytes(blake2b(32, Blake2Key, obj))]

Blake2_new(obj) == [bytes |-> into_64bytes(blake2b(DigestLen, Blake2Key, obj))]

\* PartialEq for Blake2: all zipped byte pairs equal
Blake2_eq(a, b) == a.bytes = b.bytes

(***************************************************************************)
(* event.rs                                                                *)
(***************************************************************************)
Root(fact) == [variant |-> "Root", fact |-> fact]

Node(fact, parent_hash) == [variant |-> "Node", fact |-> fact, parent_hash |-> parent_hash]

\* hash that leaves the parent's hash out of a Node's digest
Event_hash_fact_only(self) == Blake2_new(self.fact)

Event_hash(self) ==
    IF self.variant = "Root"
    THEN Blake2_new(self.fact)
    ELSE Blake2_new(self.fact \o self.parent_hash.bytes)

\* constructor that links a Node to its parent's fact, not to its parent's hash
Event_new_shallow(fact, parent) ==
    IF parent = None
    THEN Root(fact)
    ELSE Node(fact, Blake2_new(parent[1].fact))

Event_new(fact, parent) ==
    IF parent = None
    THEN Root(fact)
    ELSE Node(fact, Event_hash(parent[1]))

\* parent that is lost: every event reports None
Event_parent_none(self) == None

\* parent that names the event itself
Event_parent_self(self) ==
    IF self.variant = "Root" THEN None ELSE Some(Event_hash(self))

Event_parent(self) ==
    IF self.variant = "Root" THEN None ELSE Some(self.parent_hash)

Event_is_root(self) == self.variant = "Root"

(***************************************************************************)
(* fragment.rs: Fragment                                                   *)
(***************************************************************************)
\* HashMap::new(), HashMap::insert (the new value replaces an old one)
EmptyMap == << >>

MapInsert(m, k, v) == (k :> v) @@ m

Fragment_new == [head |-> None, events |-> EmptyMap]

\* append_event that sets the head and forgets the insert
Fragment_append_event_no_insert(self, event) ==
    [head |-> Some(event), events |-> self.events]

\* append_event that files the event under the digest of its fact alone
Fragment_append_event_fact_key(self, event) ==
    [head |-> Some(event), events |-> MapInsert(self.events, Blake2_new(event.fact), event)]

\* append_event that turns away a Node whose parent is not in the map
Fragment_append_event_orphan_check(self, event) ==
    IF event.variant = "Node" /\ event.parent_hash \notin DOMAIN self.events
    THEN self
    ELSE [head |-> Some(event), events |-> MapInsert(self.events, Event_hash(event), event)]

Fragment_append_event(self, event) ==
    [head |-> Some(event), events |-> MapInsert(self.events, Event_hash(event), event)]

\* append that never chains onto the head
Fragment_append_unchained(self, fact) ==
    Fragment_append_event(self, Event_new(fact, None))

Fragment_append(self, fact) ==
    Fragment_append_event(self, Event_new(fact, self.head))

(***************************************************************************)
(* fragment.rs: Chain and Link                                             *)
(***************************************************************************)
LinkEvent(event) == [link |-> "Event", event |-> event]

LinkTerminus(hash) == [link |-> "Terminus", hash |-> hash]

\* constructor that leaves the cursor unset
Chain_new_unpositioned(fragment, summary) ==
    [fragment |-> fragment, summary |-> summary, next |-> None]

Chain_new(fragment, summary) ==
    [fragment |-> fragment,
     summary |-> summary,
     next |-> IF fragment.head = None THEN None ELSE Some(Event_hash(fragment.head[1]))]

Fragment_summarize(self, name) == Chain_new(self, name)

\* next_event that leaves the cursor on the event it returns
Chain_next_event_stuck(self) ==
    IF self.next = None
    THEN [chain |-> self, link |-> LinkTerminus(None)]
    ELSE LET hash == self.next[1] IN
         IF hash \in DOMAIN self.fragment.events
         THEN [chain |-> self, link |-> LinkEvent(self.fragment.events[hash])]
         ELSE [chain |-> self, link |-> LinkTerminus(Some(hash))]

\* next_event that reports a missing ancestor as the end of the chain
Chain_next_event_silent(self) ==
    IF self.next = None
    THEN [chain |-> self, link |-> LinkTerminus(None)]
    ELSE LET hash == self.next[1] IN
         IF hash \in DOMAIN self.fragment.events
         THEN LET event == self.fragment.events[hash] IN
              [chain |-> [self EXCEPT !.next = Event_parent(event)],
               link |-> LinkEvent(event)]
         ELSE [chain |-> self, link |-> LinkTerminus(None)]

\* next_event that clears the cursor once it has reported a missing ancestor
Chain_next_event_exhausting(self) ==
    IF self.next = None
    THEN [chain |-> self, link |-> LinkTerminus(None)]
    ELSE LET hash == self.next[1] IN
         IF hash \in DOMAIN self.fragment.events
         THEN LET event == self.fragment.events[hash] IN
              [chain |-> [self EXCEPT !.next = Event_parent(event)],
               link |-> LinkEvent(event)]
         ELSE [chain |-> [self EXCEPT !.next = None], link |-> LinkTerminus(Some(hash))]

\* next_event that rewinds to the head after the end of the chain
Chain_next_event_rewinding(self) ==
    IF self.next = None
    THEN [chain |-> [self EXCEPT !.next =
                        IF self.fragment.head = None THEN None
                        ELSE Some(Event_hash(self.fragment.head[1]))],
          link |-> LinkTerminus(None)]
    ELSE LET hash == self.next[1] IN
         IF hash \in DOMAIN self.fragment.events
         THEN LET event == self.fragment.events[hash] IN
              [chain |-> [self EXCEPT !.next = Event_parent(event)],
               link |-> LinkEvent(event)]
         ELSE [chain |-> self, link |-> LinkTerminus(Some(hash))]

\* next_event that takes the event it returns out of the chain's map
Chain_next_event_consuming(self) ==
    IF self.next = None
    THEN [chain |-> self, link |-> LinkTerminus(None)]
    ELSE LET hash == self.next[1] IN
         IF hash \in DOMAIN self.fragment.events
         THEN LET event == self.fragment.events[hash]
                  rest == [k \in DOMAIN self.fragment.events \ {hash} |->
                              self.fragment.events[k]]
              IN  [chain |-> [self EXCEPT !.next = Event_parent(event),
                                          !.fragment.events = rest],
                   link |-> LinkEvent(event)]
         ELSE [chain |-> self, link |-> LinkTerminus(Some(hash))]

\* next_event: the chain after the call and the Link it returns
Chain_next_event(self) ==
    IF self.next = None
    THEN [chain |-> self, link |-> LinkTerminus(None)]
    ELSE LET hash == self.next[1] IN
         IF hash \in DOMAIN self.fragment.events
         THEN LET event == self.fragment.events[hash] IN
              [chain |-> [self EXCEPT !.next = Event_parent(event)],
               link |-> LinkEvent(event)]
         ELSE [chain |-> self, link |-> LinkTerminus(Some(hash))]

(***************************************************************************)
(* The inputs a caller passes.                                             *)
(***************************************************************************)
RECURSIVE SeqsUpTo(_, _)
SeqsUpTo(S, n) ==
    IF n = 0 THEN {<< >>}
    ELSE LET shorter == SeqsUpTo(S, n - 1) IN
         shorter \cup {Append(s, x) : s \in shorter, x \in S}

\* literal facts: byte strings that hold no digest
PlainFacts == SeqsUpTo({[byte |-> b] : b \in FactByte}, MaxFactLen)

\* digests a caller can hold: of any literal fact (Blake2::new is public) and
\* every key of the fragment (events is a public field)
KnownDigests(f) == {Blake2_new(p) : p \in PlainFacts} \cup DOMAIN f.events

\* facts: literal ones, and verbatim copies of a known digest's bytes
Facts(f) == PlainFacts \cup {d.bytes : d \in KnownDigests(f)}

\* events a caller can hand to Event::new as the parent
Parents(f) ==
    {None} \cup {Some(Root(p)) : p \in PlainFacts}
           \cup {Some(f.events[k]) : k \in DOMAIN f.events}

(***************************************************************************)
(* State machine of one fragment and the chain it is summarized into.      *)
(*   frag     the fragment the caller owns                                 *)
(*   chain    None, or Some(chain) once summarize has consumed frag        *)
(*   ops      the append / append_event calls made, in order               *)
(*   results  the Links returned by next_event, in order                   *)
(*   twin     a second fragment, grown next to frag in the twin run        *)
(***************************************************************************)
Init ==
    /\ frag = Fragment_new
    /\ chain = None
    /\ ops = << >>
    /\ results = << >>
    /\ twin = [frag |-> Fragment_new, ops |-> << >>]

OpRecord(op, fact, parent, event) ==
    [op |-> op, fact |-> fact, parent |-> parent, event |-> event]

\* frag.append(fact)
append(fact) ==
    /\ chain = None
    /\ Len(ops) < MaxAppends
    /\ frag' = Fragment_append(frag, fact)
    /\ ops' = Append(ops, OpRecord("append", fact, frag.head, frag'.head[1]))
    /\ UNCHANGED <<chain, results, twin>>

\* frag.append_event(Event::new(fact, parent))
append_event(fact, parent) ==
    /\ chain = None
    /\ Len(ops) < MaxAppends
    /\ frag' = Fragment_append_event(frag, Event_new(fact, parent))
    /\ ops' = Append(ops, OpRecord("append_event", fact, parent, Event_new(fact, parent)))
    /\ UNCHANGED <<chain, results, twin>>

\* let chain = frag.summarize(name): frag is moved into the chain
summarize(name) ==
    /\ chain = None
    /\ chain' = Some(Fragment_summarize(frag, name))
    /\ UNCHANGED <<frag, ops, results, twin>>

\* chain.next_event()
next_event ==
    /\ chain # None
    /\ Len(results) < MaxCalls
    /\ LET r == Chain_next_event(chain[1]) IN
        /\ chain' = Some(r.chain)
        /\ results' = Append(results, r.link)
    /\ UNCHANGED <<frag, ops, twin>>

Next ==
    \/ \E fact \in Facts(frag) : append(fact)
    \/ \E fact \in Facts(frag), parent \in Parents(frag) : append_event(fact, parent)
    \/ summarize("my-summary")
    \/ next_event

Spec == Init /\ [][Next]_vars

(***************************************************************************)
(* Two fragments grown side by side by append alone, from fact lists that  *)
(* differ in at most one position: frag takes factA, twin.frag takes factB.*)
(***************************************************************************)
SameFactsSoFar ==
    \A i \in 1..Len(ops) : ops[i].fact = twin.ops[i].fact

twin_append(factA, factB) ==
    /\ chain = None
    /\ Len(ops) < MaxTwinAppends
    /\ factA = factB \/ SameFactsSoFar
    /\ frag' = Fragment_append(frag, factA)
    /\ ops' = Append(ops, OpRecord("append", factA, frag.head, frag'.head[1]))
    /\ twin' = [frag |-> Fragment_append(twin.frag, factB),
                ops |-> Append(twin.ops,
                               OpRecord("append", factB, twin.frag.head,
                                        Fragment_append(twin.frag, factB).head[1]))]
    /\ UNCHANGED <<chain, results>>

NextTwin ==
    \E factA \in Facts(frag), factB \in Facts(frag) \cup Facts(twin.frag) :
        twin_append(factA, factB)

SpecTwin == Init /\ [][NextTwin]_vars

(***************************************************************************)
(* Shorthands used by the properties.                                      *)
(***************************************************************************)
OnlyAppends == \A i \in 1..Len(ops) : ops[i].op = "append"

IsBoundary(l) == l.link = "Terminus" /\ l.hash # None

\* the operation a step just performed on the fragment, if any
Appended == Len(ops') = Len(ops) + 1

Called == Len(results') = Len(results) + 1

LastOp == ops'[Len(ops')]

LastResult == results'[Len(results')]

(***************************************************************************)
(* Properties.                                                             *)
(***************************************************************************)

\* C1: on a fragment grown by n appends alone, the k-th next_event call
\* (k <= n) returns the event of the (n-k+1)-th append, the Root of the
\* first append last, and call n+1 returns Terminus(None); with n = 0 the
\* first call returns Terminus(None).
C1_ReverseAppendOrder ==
    OnlyAppends =>
        LET n == Len(ops) IN
        \A k \in 1..Len(results) :
            /\ k <= n => results[k] = LinkEvent(ops[n - k + 1].event)
            /\ k = n => Event_is_root(results[k].event)
            /\ k = n + 1 => results[k] = LinkTerminus(None)

C1_Witness ==
    /\ OnlyAppends
    /\ Len(ops) = 2
    /\ Len(results) = 3
    /\ results[1] = LinkEvent(ops[2].event)
    /\ results[3] = LinkTerminus(None)

\* C2: whenever the head is present, its hash is a key of the events map and
\* the event stored under that key is the head.
C2_HeadInMap ==
    frag.head # None =>
        /\ Event_hash(frag.head[1]) \in DOMAIN frag.events
        /\ frag.events[Event_hash(frag.head[1])] = frag.head[1]

C2_Witness ==
    /\ Len(ops) = 2
    /\ ops[1].op = "append"
    /\ ops[2].op = "append_event"
    /\ frag.head = Some(ops[2].event)
    /\ Cardinality(DOMAIN frag.events) = 2

\* C3: every key of the events map is the hash of the event stored under it.
C3_KeysAreHashes ==
    \A k \in DOMAIN frag.events : k = Event_hash(frag.events[k])

C3_Witness ==
    /\ Cardinality(DOMAIN frag.events) = 2
    /\ \E k \in DOMAIN frag.events : frag.events[k].variant = "Node"
    /\ \E i \in 1..Len(ops) : ops[i].op = "append_event"

\* C4: append(fact) on a fragment whose head is h leaves head = Event::new(fact, h),
\* a Root when h is absent and a Node over hash(h) otherwise, and a map that is
\* the previous map with the entry hash(new head) -> new head added; after
\* append(f1), append(f2) on an empty fragment the head is the Node for f2 over
\* the Root for f1 and both hashes are keys.
C4_AppendStep ==
    (Appended /\ LastOp.op = "append") =>
        LET fact == LastOp.fact
            h == frag.head
            expected == IF h = None THEN Root(fact) ELSE Node(fact, Event_hash(h[1]))
            k == Event_hash(expected)
        IN  /\ frag'.head = Some(expected)
            /\ DOMAIN frag'.events = DOMAIN frag.events \cup {k}
            /\ frag'.events[k] = expected
            /\ \A d \in DOMAIN frag.events \ {k} : frag'.events[d] = frag.events[d]

C4_TwoAppends ==
    (OnlyAppends /\ Len(ops) = 2) =>
        LET root == Root(ops[1].fact)
            node == Node(ops[2].fact, Event_hash(root))
        IN  /\ frag.head = Some(node)
            /\ {Event_hash(root), Event_hash(node)} \subseteq DOMAIN frag.events

C4_Append == [][C4_AppendStep]_vars /\ []C4_TwoAppends

C4_Witness ==
    /\ OnlyAppends
    /\ Len(ops) = 2
    /\ frag.head # None
    /\ frag.head[1].variant = "Node"
    /\ frag.head[1].fact = ops[2].fact
    /\ Cardinality(DOMAIN frag.events) = 2

\* C5: a next_event call made while the cursor is a digest d that is not a key
\* of the chain's map returns Terminus(Some(d)).
C5_BoundaryStep ==
    (Called /\ chain # None /\ chain[1].next # None
            /\ chain[1].next[1] \notin DOMAIN chain[1].fragment.events) =>
        LastResult = LinkTerminus(Some(chain[1].next[1]))

C5_Boundary == [][C5_BoundaryStep]_vars

C5_Witness ==
    /\ chain # None
    /\ Len(results) = 2
    /\ results[1].link = "Event"
    /\ results[1].event.variant = "Node"
    /\ results[1].event.parent_hash \notin DOMAIN chain[1].fragment.events
    /\ results[2] = LinkTerminus(Some(results[1].event.parent_hash))

\* C6: once a call has returned the boundary terminus Terminus(Some(d)), every
\* later call returns the same Terminus(Some(d)).
C6_BoundaryRepeats ==
    \A i \in 1..Len(results) : \A j \in i..Len(results) :
        IsBoundary(results[i]) => results[j] = results[i]

C6_Witness ==
    /\ Len(results) >= 3
    /\ IsBoundary(results[Len(results) - 1])
    /\ results[Len(results)] = results[Len(results) - 1]

\* C7: once a call has returned Terminus(None), every later call returns
\* Terminus(None).
C7_EndRepeats ==
    \A i \in 1..Len(results) : \A j \in i..Len(results) :
        results[i] = LinkTerminus(None) => results[j] = LinkTerminus(None)

C7_Witness ==
    /\ Len(results) = 4
    /\ results[1].link = "Event"
    /\ results[2].link = "Event"
    /\ results[3] = LinkTerminus(None)
    /\ results[4] = LinkTerminus(None)

\* the events handed to or created by the operations so far
SeenEvents ==
    {ops[i].event : i \in 1..Len(ops)} \cup {frag.events[k] : k \in DOMAIN frag.events}

\* C8: two events have equal hashes exactly when they are the same variant
\* with the same fields; a Root and a Node never have the same hash.
C8_HashIdentifiesEvent ==
    \A a, b \in SeenEvents :
        /\ Blake2_eq(Event_hash(a), Event_hash(b)) <=> a = b
        /\ a.variant # b.variant => ~Blake2_eq(Event_hash(a), Event_hash(b))

\* C9: of two events of the same variant built by Event::new, different facts
\* over the same parent (or over no parent) give different hashes, and equal
\* facts over parents with different hashes give different hashes.
C9_FactAndParentSensitive ==
    \A i, j \in 1..Len(ops) :
        LET a == ops[i]
            b == ops[j]
        IN  /\ (a.fact # b.fact /\ a.parent = b.parent)
                => ~Blake2_eq(Event_hash(a.event), Event_hash(b.event))
            /\ (a.fact = b.fact /\ a.parent # None /\ b.parent # None
                  /\ ~Blake2_eq(Event_hash(a.parent[1]), Event_hash(b.parent[1])))
                => ~Blake2_eq(Event_hash(a.event), Event_hash(b.event))

C9_Witness ==
    /\ Len(ops) = 2
    /\ ops[1].fact = ops[2].fact
    /\ ops[1].parent # None
    /\ ops[2].parent # None
    /\ ops[1].event.variant = "Node"
    /\ ops[2].event.variant = "Node"
    /\ Event_hash(ops[1].parent[1]) # Event_hash(ops[2].parent[1])
    /\ Event_hash(ops[1].event) # Event_hash(ops[2].event)

\* C10: when the two fragments were grown by append from n >= 2 facts that
\* differ at position i < n alone, the events of every position j >= i have
\* different hashes in the two fragments, and so do the two heads.
DiffersOnlyAt(i) ==
    /\ ops[i].fact # twin.ops[i].fact
    /\ \A m \in 1..Len(ops) : m # i => ops[m].fact = twin.ops[m].fact

C10_TamperEvidence ==
    LET n == Len(ops) IN
    (n >= 2 /\ Len(twin.ops) = n /\ OnlyAppends) =>
        \A i \in 1..(n - 1) :
            DiffersOnlyAt(i) =>
                /\ \A j \in i..n :
                      ~Blake2_eq(Event_hash(ops[j].event), Event_hash(twin.ops[j].event))
                /\ ~Blake2_eq(Event_hash(frag.head[1]), Event_hash(twin.frag.head[1]))

C10_Witness ==
    /\ Len(ops) = 3
    /\ Len(twin.ops) = 3
    /\ DiffersOnlyAt(1)
    /\ frag.head = Some(ops[3].event)
    /\ twin.frag.head = Some(twin.ops[3].event)
    /\ Event_hash(frag.head[1]) # Event_hash(twin.frag.head[1])

\* C11: Event::new(f, Some(p)) is a Node whose parent() is Some(p.hash()) and
\* whose is_root() is false; Event::new(f, None) is a Root whose parent() is
\* None and whose is_root() is true.  (For an append the parent is the head
\* the fragment had before the call.)
C11_Constructor ==
    \A i \in 1..Len(ops) :
        LET e == ops[i].event
            p == ops[i].parent
        IN  IF p = None
            THEN /\ e = Root(ops[i].fact)
                 /\ Event_parent(e) = None
                 /\ Event_is_root(e)
            ELSE /\ e = Node(ops[i].fact, Event_hash(p[1]))
                 /\ Event_parent(e) = Some(Event_hash(p[1]))
                 /\ ~Event_is_root(e)

C11_Witness ==
    /\ Len(ops) = 2
    /\ ops[1].parent = None
    /\ Event_is_root(ops[1].event)
    /\ ops[2].op = "append_event"
    /\ ops[2].parent = Some(ops[1].event)
    /\ ops[2].event.variant = "Node"
    /\ Event_parent(ops[2].event) = Some(Event_hash(ops[1].event))

\* every digest the state holds
Digests(f) ==
    DOMAIN f.events
      \cup {Event_hash(f.events[k]) : k \in DOMAIN f.events}
      \cup {f.events[k].parent_hash : k \in {x \in DOMAIN f.events : f.events[x].variant = "Node"}}
      \cup (IF f.head = None THEN {} ELSE {Event_hash(f.head[1])})

StateDigests ==
    Digests(frag)
      \cup {Event_hash(ops[i].event) : i \in 1..Len(ops)}
      \cup (IF chain = None THEN {}
            ELSE Digests(chain[1].fragment)
                   \cup (IF chain[1].next = None THEN {} ELSE {chain[1].next[1]}))
      \cup {results[i].hash[1] : i \in {x \in 1..Len(results) : IsBoundary(results[x])}}

\* C12: no sequence of operations reaches the panic of into_64bytes: every
\* digest computed is an array of exactly 64 bytes.
C12_NoPanic ==
    \A d \in StateDigests : d.bytes # Panic /\ ByteLen(d.bytes) = 64

C12_Witness ==
    /\ Len(ops) = 2
    /\ Len(results) = 3
    /\ IsBoundary(results[3])
    /\ Cardinality(StateDigests) >= 3

\* C13: summarize hands the chain the fragment as it is, and from then on the
\* chain's fragment and label never change: next_event moves the cursor
\* alone and no append or append_event takes place.
C13_StableViewStep ==
    /\ (chain = None /\ chain' # None) =>
          /\ chain'[1].fragment = frag
          /\ frag' = frag
          /\ ops' = ops
    /\ chain # None =>
          /\ chain' # None
          /\ chain'[1].fragment = chain[1].fragment
          /\ chain'[1].summary = chain[1].summary
          /\ chain'[1].fragment = frag'
          /\ frag' = frag
          /\ ops' = ops

C13_StableView == [][C13_StableViewStep]_vars

C13_Witness ==
    /\ chain # None
    /\ Len(ops) = 2
    /\ Len(results) = 2
    /\ results[1].link = "Event"
    /\ results[2].link = "Event"
    /\ chain[1].fragment = frag
    /\ chain[1].next # Some(Event_hash(frag.head[1]))

\* C14: the map is append-only: a key that maps to an event keeps mapping to
\* that event through every later append and append_event.
C14_AppendOnlyStep ==
    \A k \in DOMAIN frag.events :
        /\ k \in DOMAIN frag'.events
        /\ frag'.events[k] = frag.events[k]

C14_AppendOnly == [][C14_AppendOnlyStep]_vars

\* the i-th inserted event chains onto the head the fragment had before it:
\* a Root into the empty fragment, a Node over the previous insert otherwise
ChainedOntoHead(i) ==
    IF i = 1
    THEN ops[1].event.variant = "Root"
    ELSE /\ ops[i].event.variant = "Node"
         /\ Blake2_eq(ops[i].event.parent_hash, Event_hash(ops[i - 1].event))

\* the k-th result is the event of the k-th most recent insert
ReverseInsertionOrder ==
    LET n == Len(ops) IN
    \A k \in 1..Len(results) : k <= n => results[k] = LinkEvent(ops[n - k + 1].event)

\* C15 (as stated): after any mix of append and append_event calls, with any
\* events passed to append_event, the chain yields the inserted events in
\* reverse insertion order.
C15_ReverseInsertionOrder == ReverseInsertionOrder

\* C15 (amended): when every inserted event chains onto the head the fragment
\* had before it, the chain yields the inserted events in reverse insertion
\* order and then Terminus(None).
C15_ReverseChainedOrder ==
    (\A i \in 1..Len(ops) : ChainedOntoHead(i)) =>
        /\ ReverseInsertionOrder
        /\ Len(results) > Len(ops) => results[Len(ops) + 1] = LinkTerminus(None)

C15_Witness ==
    /\ Len(ops) = 2
    /\ ops[1].op = "append_event"
    /\ ops[2].op = "append_event"
    /\ ChainedOntoHead(1)
    /\ ChainedOntoHead(2)
    /\ Len(results) = 3
    /\ results[1] = LinkEvent(ops[2].event)
    /\ results[2] = LinkEvent(ops[1].event)
    /\ results[3] = LinkTerminus(None)

\* C16: the head is the event passed to, or created by, the most recent
\* append_event or append, whatever that event is; before any, it is absent.
C16_HeadIsLastInsert ==
    IF Len(ops) = 0
    THEN frag.head = None
    ELSE LET r == ops[Len(ops)] IN
         frag.head = Some(IF r.parent = None
                          THEN Root(r.fact)
                          ELSE Node(r.fact, Event_hash(r.parent[1])))

\* the last insert is an append_event of a Node whose parent is neither in
\* the map nor the previous head
C16_Witness ==
    /\ Len(ops) = 2
    /\ ops[2].op = "append_event"
    /\ ops[2].event.variant = "Node"
    /\ ops[2].event.parent_hash \notin DOMAIN frag.events
    /\ ops[2].event.parent_hash # Event_hash(ops[1].event)
    /\ frag.head = Some(ops[2].event)

\* the cursor an Event result leaves behind: the event's parent, if any
CursorAfterEvent(l) ==
    IF l.event.variant = "Root" THEN None ELSE Some(l.event.parent_hash)

\* C17 (as stated): after any terminus, the boundary terminus included, the
\* cursor is None; after Event(e) it is e's parent hash for a Node and None
\* for a Root.
C17_ExhaustedAfterTerminus ==
    (chain # None /\ Len(results) > 0) =>
        LET l == results[Len(results)] IN
        IF l.link = "Terminus"
        THEN chain[1].next = None
        ELSE chain[1].next = CursorAfterEvent(l)

\* C17 (amended): after Terminus(None) the cursor is None; after the boundary
\* terminus Terminus(Some(d)) the cursor is unchanged, still Some(d); after
\* Event(e) it is e's parent hash for a Node and None for a Root.
C17_CursorAfterCall ==
    (chain # None /\ Len(results) > 0) =>
        LET l == results[Len(results)] IN
        IF l.link = "Terminus"
        THEN chain[1].next = l.hash
        ELSE chain[1].next = CursorAfterEvent(l)

C17_Witness ==
    /\ chain # None
    /\ Len(results) = 2
    /\ results[1].link = "Event"
    /\ IsBoundary(results[2])
    /\ chain[1].next = results[2].hash
    /\ chain[1].next # None

\* C18: an event built over a parent never has its parent's hash, and no
\* entry of the map names its own key as its parent.
C18_ChildHashDiffers ==
    /\ \A i \in 1..Len(ops) :
          ops[i].parent # None =>
              ~Blake2_eq(Event_hash(ops[i].event), Event_hash(ops[i].parent[1]))
    /\ \A k \in DOMAIN frag.events :
          frag.events[k].variant = "Node" => ~Blake2_eq(frag.events[k].parent_hash, k)

C18_Witness ==
    /\ Len(ops) = 2
    /\ ops[2].parent = Some(ops[1].event)
    /\ ops[2].fact = ops[1].fact
    /\ Event_hash(ops[2].event) \in DOMAIN frag.events
    /\ Event_hash(ops[2].event) # Event_hash(ops[1].event)

\* C19: a chain returns at most |map| events before a Terminus and never the
\* same event twice.
C19_Terminates ==
    chain # None =>
        LET m == Cardinality(DOMAIN chain[1].fragment.events) IN
        /\ \A k \in 1..Len(results) : k > m => results[k].link = "Terminus"
        /\ \A i, j \in 1..Len(results) :
              (i < j /\ results[i].link = "Event" /\ results[j].link = "Event")
                  => results[i].event # results[j].event

C19_Witness ==
    /\ chain # None
    /\ Cardinality(DOMAIN chain[1].fragment.events) = 2
    /\ \E i \in 1..Len(ops) : ops[i].op = "append_event"
    /\ Len(results) = 3
    /\ results[1].link = "Event"
    /\ results[2].link = "Event"
    /\ results[3].link = "Terminus"

\* the first result, if an Event, is the head, and an Event after an Event is
\* the one the earlier names as its parent
LinkedEvents ==
    /\ (Len(results) > 0 /\ results[1].link = "Event") =>
          Some(results[1].event) = chain[1].fragment.head
    /\ \A k \in 2..Len(results) :
          (results[k - 1].link = "Event" /\ results[k].link = "Event") =>
              Event_parent(results[k - 1].event) = Some(Event_hash(results[k].event))

AfterRoot(k) ==
    \/ chain[1].fragment.head = None
    \/ /\ k > 1
       /\ results[k - 1].link = "Event"
       /\ results[k - 1].event.variant = "Root"

AfterNodeOver(k, d) ==
    /\ k > 1
    /\ results[k - 1].link = "Event"
    /\ results[k - 1].event.variant = "Node"
    /\ results[k - 1].event.parent_hash = d

\* C20 (as stated): results are hash-linked; Terminus(None) comes only right
\* after a Root event or on an empty fragment, and Terminus(Some(d)) only
\* right after a Node whose parent_hash is d.
C20_HashLinked ==
    chain # None =>
        /\ LinkedEvents
        /\ \A k \in 1..Len(results) :
              /\ results[k] = LinkTerminus(None) => AfterRoot(k)
              /\ IsBoundary(results[k]) => AfterNodeOver(k, results[k].hash[1])

\* C20 (amended): as stated, except that a terminus may also come right
\* after the same terminus (a repeated call at the end of the chain).
C20_HashLinkedOrRepeated ==
    chain # None =>
        /\ LinkedEvents
        /\ \A k \in 1..Len(results) :
              /\ results[k] = LinkTerminus(None) =>
                    AfterRoot(k) \/ (k > 1 /\ results[k - 1] = results[k])
              /\ IsBoundary(results[k]) =>
                    AfterNodeOver(k, results[k].hash[1]) \/ (k > 1 /\ results[k - 1] = results[k])

C20_Witness ==
    /\ chain # None
    /\ Len(results) = 4
    /\ results[1].link = "Event"
    /\ results[2].link = "Event"
    /\ Event_parent(results[1].event) = Some(Event_hash(results[2].event))
    /\ IsBoundary(results[3])
    /\ results[4] = results[3]

====
